---------------------------- MODULE Spec2Model ----------------------------
(***************************************************************************)
(* skribbl-draw: the stroke replay engine (drawing.py, StrokeDrawing) as a *)
(* state machine whose slots run one at a time on the worker thread, the   *)
(* mouse actuator it drives, and the controller (app.py, SimpleApp) that   *)
(* pumps it through queued signals.                                        *)
(*                                                                         *)
(* Python indices are kept 0-based as in the source (index, stroke_index); *)
(* TLA+ sequences are 1-based, so element k of a list is list[k + 1].      *)
(***************************************************************************)
EXTENDS Integers, Sequences, FiniteSets, TLC

VARIABLES
    \* ---- StrokeDrawing fields (drawing.py:69-85) ----
    canvas,         \* _canvas: (x1, y1, x2, y2)
    colours,        \* _colours: dict colour -> click area
    strokes,        \* _strokes: flattened list of (colour, polygon)
    index,          \* _index: position in _strokes
    stroke_index,   \* _stroke_index: position in the current polygon
    active_colour,  \* _active_colour, None when no colour is selected
    is_drawing,     \* _is_drawing
    reset_flag,     \* _reset_flag
    mouse_press,    \* _mouse_press
    velocity,       \* _velocity
    \* ---- what the engine sends out ----
    ops,            \* calls made on self.mouse by the slot that ran last
    button,         \* the physical mouse button: "up" or "down"
    progress,       \* last progress_signal emitted, as <<completed, total>>
    emitted,        \* request_next_stroke values emitted by the slot that ran last
    raised,         \* the exception that ended the slot that ran last
    crashed,        \* the process was aborted by an unhandled exception
    \* ---- history, for stating properties ----
    last,           \* the slot that ran last and the replay state it started from
    run,            \* the mouse calls of the polygon being drawn
    \* ---- SimpleApp and the event queues (app.py) ----
    started,        \* SimpleApp._started
    app_data,       \* SimpleApp._data: << >> for None, else <<(canvas, colours)>>
    app_image,      \* SimpleApp._image: << >> for None, else <<image>>
    key_down,       \* the physical '-' key
    lpc,            \* where the keyboard-listener thread is
    workerQ,        \* queued slot calls for the worker thread
    guiQ,           \* queued request_next_stroke signals for the interface thread
    thread,         \* SimpleApp._thread: "running", "quitting" or "finished"
    access,         \* history: the thread that ran the engine slot last, and
                    \* whether the worker was inside a slot of its own then
    \* ---- the canvas locator (skribbl_helper.py) ----
    shot,           \* the screenshot crop and offsets find_canvas was called with
    located,        \* << >>, or <<box>> with the box find_canvas arrives at
    swatches,       \* what get_colours did in find_canvas: its list, or a raise
    \* ---- history of the actuator ----
    clicked         \* << >>, or <<point>> of the last click made on self.mouse

engineVars == <<canvas, colours, strokes, index, stroke_index, active_colour,
                is_drawing, reset_flag, mouse_press, velocity>>
outVars    == <<ops, button, progress, emitted, raised, crashed>>
histVars   == <<last, run>>
closeVars  == <<thread, access>>
locVars    == <<shot, located, swatches>>
appVars    == <<started, app_data, app_image, key_down, lpc, workerQ, guiQ,
                closeVars, locVars, clicked>>
vars       == <<engineVars, outVars, histVars, appVars>>

-----------------------------------------------------------------------------
(* Bounds and input domains *)

\* the longest polygon of the inputs
MaxVertices == 4
\* the longest worker-thread event queue explored
MaxQueue == 2

None == "None"

\* Vertices of the input polygons; every segment, closing segment included, has
\* an integer length, so the square root of line 156 is exact.
Path == << <<0, 0>>, <<3, 0>>, <<3, 4>>, <<0, 4>>, <<0, 2>>, <<2, 2>> >>

Poly(n) == [i \in 1..n |-> Path[i]]

\* Arguments of set_strokes: per-colour lists (colour, [polygon, ...]) as
\* image_to_polygons returns them.
StrokeInputs ==
    { << >>,
      << <<"red", <<Poly(MaxVertices)>> >> >>,
      << <<"red", <<Poly(1), Poly(3)>> >>, <<"green", <<Poly(2)>> >> >>,
      << <<"blue", <<Poly(2)>> >> >> }

\* Arguments of set_colours: lists (colour, click box) as get_colours returns them.
PaletteInputs ==
    { << <<"red", <<54, 500, 78, 524>> >>, <<"green", <<78, 500, 102, 524>> >> >>,
      << <<"red", <<78, 476, 102, 500>> >> >> }

\* Arguments of set_canvas.
CanvasInputs == { <<10, 20, 110, 120>> }

\* Arguments of draw: values of the delay spin box.
Velocities == {100}

-----------------------------------------------------------------------------
(* The mouse actuator: MouseControl calls as the engine makes them *)

\* A duration is a rational <<numerator, denominator>>; NoDuration is the
\* argument left out.
NoDuration == <<0, 0>>

MoveOp(x, y, d) == [op |-> "move", x |-> x, y |-> y, dur |-> d]
PressOp   == [op |-> "press",   x |-> 0, y |-> 0, dur |-> NoDuration]
ReleaseOp == [op |-> "release", x |-> 0, y |-> 0, dur |-> NoDuration]
ClickOp   == [op |-> "click",   x |-> 0, y |-> 0, dur |-> NoDuration]

\* The button after a sequence of actuator calls: press holds it, release and
\* click (press and release) leave it up.
RECURSIVE ButtonAfter(_, _)
ButtonAfter(b, s) ==
    IF s = << >> THEN b
    ELSE ButtonAfter(CASE Head(s).op = "press"   -> "down"
                       [] Head(s).op = "release" -> "up"
                       [] Head(s).op = "click"   -> "up"
                       [] OTHER                  -> b,
                     Tail(s))


-----------------------------------------------------------------------------
(* The canvas locator: find_canvas, skribbl_helper.py:42-92 *)

\* Screenshot crops explored: MaxRows rows of ScreenWidth pixels, and the same
\* turned on their side.
MaxRows == 4
ScreenWidth == 21

\* A crop is its height, its width and the set of its near-white pixels
\* <<row, column>>, 0-based: is_light, line 39, is all channels > 220.
NoShot == [img |-> [h |-> 0, w |-> 0, light |-> {}], x_offset |-> 0, y_offset |-> 0]

\* The near-white columns of one row: none, a single pixel (under 5% of the
\* row), the middle part, or all of them.
RowKinds == {"dark", "speck", "band", "white"}

LightColumns(kind) ==
    CASE kind = "dark"  -> {}
      [] kind = "speck" -> {0}
      [] kind = "band"  -> 2..(ScreenWidth - 3)
      [] kind = "white" -> 0..(ScreenWidth - 1)

Wide(rows) ==
    [h |-> MaxRows, w |-> ScreenWidth,
     light |-> {<<r, c>> \in (0..(MaxRows - 1)) \X (0..(ScreenWidth - 1)) :
                   c \in LightColumns(rows[r + 1])}]

Turned(img) ==
    [h |-> img.w, w |-> img.h, light |-> {<<p[2], p[1]>> : p \in img.light}]

\* The palette layout, skribbl_helper.py:15-18.
COLOUR_X_START == 54
COLOUR_HEIGHT == 24
COLOUR_WIDTH == 24
NUM_COLOURS == 13

\* The widest dark margin of the large crops.
MaxTrim == 1

\* A crop large enough to hold the two swatch rows: a near-white canvas with
\* a dark margin of t rows on top and l columns on the left.
Large(t, l) ==
    LET h == (2 * COLOUR_HEIGHT) + t
        w == COLOUR_X_START + (NUM_COLOURS * COLOUR_WIDTH) + l
    IN  [h |-> h, w |-> w,
         light |-> (t..(h - 1)) \X (l..(w - 1))]

Screens ==
    LET wide == {Wide(rows) : rows \in [1..MaxRows -> RowKinds]}
    IN  wide \cup {Turned(img) : img \in wide}
             \cup {Large(t, l) : t \in 0..MaxTrim, l \in 0..MaxTrim}

\* x_offset, y_offset: the corner of the selected region on the screen.
Offsets == { <<0, 0>>, <<100, 50>> }

\* np.mean(is_light(row)) and np.mean(is_light(col)) as counts of near-white
\* pixels.
LightInRow(img, r) == Cardinality({c \in 0..(img.w - 1) : <<r, c>> \in img.light})
LightInCol(img, c) == Cardinality({r \in 0..(img.h - 1) : <<r, c>> \in img.light})

\* Mutation of Skipped: a line is skipped unless at least 95% of it is
\* near-white.
Skipped_below95(count, n) == 20 * count < 19 * n

\* light_fraction < 0.05, lines 55, 64, 73, 82: count / n < 1/20.
Skipped(count, n) == 20 * count < n

\* The four scans, lines 52-85.
RECURSIVE ScanTop(_, _, _)
ScanTop(img, top, bottom) ==
    IF top < bottom /\ Skipped(LightInRow(img, top), img.w)
    THEN ScanTop(img, top + 1, bottom) ELSE top

RECURSIVE ScanBottom(_, _, _)
ScanBottom(img, top, bottom) ==
    IF bottom > top /\ Skipped(LightInRow(img, bottom - 1), img.w)
    THEN ScanBottom(img, top, bottom - 1) ELSE bottom

RECURSIVE ScanLeft(_, _, _)
ScanLeft(img, left, right) ==
    IF left < right /\ Skipped(LightInCol(img, left), img.h)
    THEN ScanLeft(img, left + 1, right) ELSE left

RECURSIVE ScanRight(_, _, _)
ScanRight(img, left, right) ==
    IF right > left /\ Skipped(LightInCol(img, right - 1), img.h)
    THEN ScanRight(img, left, right - 1) ELSE right

\* get_colours(img, x_offset, y_offset), lines 24-35, for a crop of height h:
\* per swatch the row and column of the pixel it reads and the click box it
\* returns, row 0 of swatches being the bottom one.
get_colours(h, x_offset, y_offset) ==
    [i \in 1..(2 * NUM_COLOURS) |->
        LET y  == (i - 1) \div NUM_COLOURS
            x  == (i - 1) % NUM_COLOURS
            x1 == COLOUR_X_START + (x * COLOUR_WIDTH)
            x2 == COLOUR_X_START + ((x + 1) * COLOUR_WIDTH)
            y1 == h - ((y + 1) * COLOUR_HEIGHT)
            y2 == h - (y * COLOUR_HEIGHT)
        IN  [row |-> y1 + (COLOUR_HEIGHT \div 2),
             col |-> x1 + (COLOUR_WIDTH \div 2),
             box |-> <<x1 + x_offset, y1 + y_offset, x2 + x_offset, y2 + y_offset>>]]

\* img[row][col] on an array of h rows and w columns raises IndexError unless
\* -h <= row < h and -w <= col < w; a negative index counts from the end.
IndexError(h, w, row, col) ==
    ~(-h <= row /\ row < h /\ -w <= col /\ col < w)

Indexed(n, k) == IF k < 0 THEN n + k ELSE k

NoSwatches == [raised |-> FALSE, list |-> << >>]

\* Line 91: get_colours on the crop img[top:bottom, left:right].
Sampling(box, x_offset, y_offset) ==
    LET h    == box[4] - box[2]
        w    == box[3] - box[1]
        list == get_colours(h, x_offset, y_offset)
    IN  IF \E i \in 1..Len(list) : IndexError(h, w, list[i].row, list[i].col)
        THEN [raised |-> TRUE, list |-> << >>]
        ELSE [raised |-> FALSE, list |-> list]

\* find_canvas(img, x_offset, y_offset): the box of lines 89-90.
find_canvas(img, x_offset, y_offset) ==
    LET top    == ScanTop(img, 0, img.h)
        bottom == ScanBottom(img, top, img.h)
        left   == ScanLeft(img, 0, img.w)
        right  == ScanRight(img, left, img.w)
    IN  <<x_offset + left, y_offset + top, x_offset + right, y_offset + bottom>>

-----------------------------------------------------------------------------
(* StrokeDrawing helpers *)

\* update_progress: the text 'Drawing {index}/{len(strokes)}', as the pair of
\* numbers it shows.
update_progress(i, list) == <<i, Len(list)>>

\* Mutation of Flatten: the polygons of a colour are taken last to first.
RECURSIVE Flatten_backwards(_)
Flatten_backwards(input) ==
    IF input = << >> THEN << >>
    ELSE LET stroke == Head(input)
             n      == Len(stroke[2])
         IN  [p \in 1..n |-> <<stroke[1], stroke[2][n + 1 - p]>>]
             \o Flatten_backwards(Tail(input))

\* set_strokes, lines 110-114: one (colour, polygon) per polygon, in order.
RECURSIVE Flatten(_)
Flatten(input) ==
    IF input = << >> THEN << >>
    ELSE LET stroke == Head(input)
         IN  [p \in 1..Len(stroke[2]) |-> <<stroke[1], stroke[2][p]>>]
             \o Flatten(Tail(input))

\* set_colours, lines 126-128: the dict after clear() and the insertions.
EmptyDict == [c \in {} |-> <<0, 0, 0, 0>>]

RECURSIVE ColourDict(_, _)
ColourDict(d, list) ==
    IF list = << >> THEN d
    ELSE LET c == Head(list)[1]
         IN  ColourDict([k \in (DOMAIN d) \cup {c} |->
                            IF k = c THEN Head(list)[2] ELSE d[k]],
                        Tail(list))

\* mouse_click(x, y, relative): a move without duration, then a click.
mouse_click(x, y, relative) ==
    << MoveOp(IF relative THEN canvas[1] + x ELSE x,
              IF relative THEN canvas[2] + y ELSE y,
              NoDuration),
       ClickOp >>

\* move_mouse(pos, duration, relative): the duration handed on is 0 when none
\* is given and duration / 1000 otherwise.
move_mouse(pos, duration, relative) ==
    MoveOp(IF relative THEN canvas[1] + pos[1] ELSE pos[1],
           IF relative THEN canvas[2] + pos[2] ELSE pos[2],
           IF duration = NoDuration THEN <<0, 1>>
           ELSE <<duration[1], duration[2] * 1000>>)

\* The centre of a click area, lines 192-193.
ClickPoint(click_area) ==
    << click_area[1] + ((click_area[3] - click_area[1]) \div 2),
       click_area[2] + ((click_area[4] - click_area[2]) \div 2) >>

\* Mutation of select_colour: the clicked colour is not recorded (line 197 lost).
select_colour_forgets(colour) ==
    IF colour \notin DOMAIN colours
    THEN [raised |-> TRUE, ops |-> << >>, active |-> active_colour]
    ELSE IF colour = active_colour
    THEN [raised |-> FALSE, ops |-> << >>, active |-> active_colour]
    ELSE LET at == ClickPoint(colours[colour])
         IN  [raised |-> FALSE,
              ops    |-> mouse_click(at[1], at[2], FALSE),
              active |-> active_colour]

\* select_colour(colour): raises when the colour has no swatch, returns at once
\* when it is the active colour, and otherwise clicks the swatch and records it.
select_colour(colour) ==
    IF colour \notin DOMAIN colours
    THEN [raised |-> TRUE, ops |-> << >>, active |-> active_colour]
    ELSE IF colour = active_colour
    THEN [raised |-> FALSE, ops |-> << >>, active |-> active_colour]
    ELSE LET at == ClickPoint(colours[colour])
         IN  [raised |-> FALSE,
              ops    |-> mouse_click(at[1], at[2], FALSE),
              active |-> colour]

\* Line 144: whether draw calls select_colour at all.
NeedsSelect(colour) == active_colour = None \/ colour # active_colour

\* Line 147.
IsFinalStroke(poly, k) == k + 1 >= Len(poly)

\* Mutation of SegStart: a resumed polygon starts over from its first vertex.
SegStart_restart(poly, k) == poly[1]

\* Lines 148-149: the segment's two vertices.
SegStart(poly, k) == poly[k + 1]
SegEnd(poly, k)   == IF IsFinalStroke(poly, k) THEN poly[1] ELSE poly[k + 2]

\* Integer square root; exact on the inputs.
ISqrt(n) == CHOOSE r \in 0..n : r * r <= n /\ (r + 1) * (r + 1) > n

\* self._distance, the reference distance.
self_distance == 100

\* Line 156.
SegDistance(start, end) ==
    ISqrt((end[1] - start[1]) * (end[1] - start[1])
          + (end[2] - start[2]) * (end[2] - start[2]))

\* Line 157: time = (distance / self._distance) * self._velocity, a rational.
SegTime(start, end, v) == <<SegDistance(start, end) * v, self_distance>>

NoRaise == [kind |-> "none", colour |-> None]

\* Who ran an engine slot: the worker thread through a queued connection, or
\* the interface thread by a direct call.
ByWorker == [thread |-> "worker", concurrent |-> FALSE]
ByGui(concurrent) == [thread |-> "gui", concurrent |-> concurrent]

(* history bookkeeping *)
Snapshot(slot) ==
    [slot |-> slot, prev_slot |-> last.slot,
     prev_index |-> last.index, prev_stroke_index |-> last.stroke_index,
     index |-> index, stroke_index |-> stroke_index,
     active_colour |-> active_colour, is_drawing |-> is_drawing,
     mouse_press |-> mouse_press, reset_flag |-> reset_flag]

NotClean == [clean |-> FALSE, segs |-> << >>, presses |-> 0, releases |-> 0]
Fresh    == [clean |-> TRUE,  segs |-> << >>, presses |-> 0, releases |-> 0]

Count(s, kind) == Cardinality({i \in 1..Len(s) : s[i].op = kind})

-----------------------------------------------------------------------------
(* StrokeDrawing slots: each is one whole invocation on the worker thread *)

\* Mutation of StopOps: stop() forgets release_mouse().
StopOps_none == << >>

\* stop(), lines 176-179: release_mouse(), then _is_drawing = False.
StopOps == <<ReleaseOp>>

stop ==
    /\ ~crashed
    /\ ops' = StopOps
    /\ button' = ButtonAfter(button, ops')
    /\ mouse_press' = FALSE
    /\ is_drawing' = FALSE
    /\ emitted' = << >>
    /\ raised' = NoRaise
    /\ last' = Snapshot("stop")
    /\ run' = NotClean
    /\ UNCHANGED <<canvas, colours, strokes, index, stroke_index, active_colour,
                   reset_flag, velocity, progress, crashed>>

\* Mutation of reset: _reset() leaves the point index alone (line 94 lost).
reset_keeps_point ==
    /\ ~crashed
    /\ IF is_drawing
       THEN /\ reset_flag' = TRUE
            /\ is_drawing' = FALSE
            /\ UNCHANGED <<index, stroke_index, active_colour>>
       ELSE /\ index' = 0
            /\ active_colour' = None
            /\ reset_flag' = FALSE
            /\ UNCHANGED <<is_drawing, stroke_index>>
    /\ ops' = << >>
    /\ emitted' = << >>
    /\ raised' = NoRaise
    /\ last' = Snapshot("reset")
    /\ run' = NotClean
    /\ UNCHANGED <<canvas, colours, strokes, mouse_press, velocity, button,
                   progress, crashed>>

\* reset(), lines 98-104: while drawing only the flags change; otherwise
\* _reset(), lines 92-96.
reset ==
    /\ ~crashed
    /\ IF is_drawing
       THEN /\ reset_flag' = TRUE
            /\ is_drawing' = FALSE
            /\ UNCHANGED <<index, stroke_index, active_colour>>
       ELSE /\ index' = 0
            /\ stroke_index' = 0
            /\ active_colour' = None
            /\ reset_flag' = FALSE
            /\ UNCHANGED is_drawing
    /\ ops' = << >>
    /\ emitted' = << >>
    /\ raised' = NoRaise
    /\ last' = Snapshot("reset")
    /\ run' = NotClean
    /\ UNCHANGED <<canvas, colours, strokes, mouse_press, velocity, button,
                   progress, crashed>>

\* Mutation of Rejected: the mutators accept a change during a run.
Rejected_never == FALSE

\* The guard of the three mutators, lines 108, 118, 124.
Rejected == is_drawing

\* set_strokes(strokes), lines 106-114.
set_strokes(input) ==
    /\ ~crashed
    /\ strokes' = IF Rejected THEN strokes ELSE Flatten(input)
    /\ ops' = << >>
    /\ emitted' = << >>
    /\ raised' = NoRaise
    /\ last' = Snapshot("set_strokes")
    /\ run' = NotClean
    /\ UNCHANGED <<canvas, colours, index, stroke_index, active_colour,
                   is_drawing, reset_flag, mouse_press, velocity, button,
                   progress, crashed>>

\* set_canvas(canvas_coords), lines 116-120.
set_canvas(canvas_coords) ==
    /\ ~crashed
    /\ canvas' = IF Rejected THEN canvas ELSE canvas_coords
    /\ ops' = << >>
    /\ emitted' = << >>
    /\ raised' = NoRaise
    /\ last' = Snapshot("set_canvas")
    /\ run' = NotClean
    /\ UNCHANGED <<colours, strokes, index, stroke_index, active_colour,
                   is_drawing, reset_flag, mouse_press, velocity, button,
                   progress, crashed>>

\* set_colours(colours), lines 122-128.
set_colours(list) ==
    /\ ~crashed
    /\ colours' = IF Rejected THEN colours ELSE ColourDict(EmptyDict, list)
    /\ ops' = << >>
    /\ emitted' = << >>
    /\ raised' = NoRaise
    /\ last' = Snapshot("set_colours")
    /\ run' = NotClean
    /\ UNCHANGED <<canvas, strokes, index, stroke_index, active_colour,
                   is_drawing, reset_flag, mouse_press, velocity, button,
                   progress, crashed>>

\* Mutation of Continuation: a step always reports "no more work".
Continuation_done(running) == [ops |-> <<ReleaseOp>>, emitted |-> <<FALSE>>]

\* Lines 170-174: the continuation signal, decided by _is_drawing as it is
\* when the step ends.
Continuation(running) ==
    IF running THEN [ops |-> << >>, emitted |-> <<TRUE>>]
    ELSE [ops |-> <<ReleaseOp>>, emitted |-> <<FALSE>>]

\* Lines 151-159: move to the start vertex, press unless the press flag is set,
\* move to the end vertex in the segment's time.
SegmentOps(start, end, v) ==
    <<move_mouse(start, NoDuration, TRUE)>>
    \o (IF mouse_press THEN << >> ELSE <<PressOp>>)
    \o <<move_mouse(end, SegTime(start, end, v), TRUE)>>

\* Line 161: the progress emitted by a step that draws a segment.
SegmentProgress == update_progress(index, strokes)

\* The history of the polygon being drawn, after a step that drew a segment.
RunAfter(step_ops, start_op, end_op) ==
    LET base == IF stroke_index = 0 THEN Fresh ELSE run
    IN  IF base.clean
        THEN [clean    |-> TRUE,
              segs     |-> Append(base.segs, << <<start_op.x, start_op.y>>,
                                                <<end_op.x, end_op.y>> >>),
              presses  |-> base.presses + Count(step_ops, "press"),
              releases |-> base.releases + Count(step_ops, "release")]
        ELSE NotClean

\* Line 137: no stroke is left.
Exhausted == index >= Len(strokes)

\* Mutation of draw_exhausted: _is_drawing is left set (line 138 lost).
draw_exhausted_keeps_running ==
    /\ is_drawing' = TRUE
    /\ ops' = <<ReleaseOp>>
    /\ mouse_press' = FALSE
    /\ progress' = update_progress(index, strokes)
    /\ emitted' = <<FALSE>>
    /\ raised' = NoRaise
    /\ run' = NotClean
    /\ UNCHANGED <<index, stroke_index, active_colour, crashed>>

\* draw, lines 137-141: nothing left to draw.
draw_exhausted ==
    /\ is_drawing' = FALSE
    /\ ops' = <<ReleaseOp>>
    /\ mouse_press' = FALSE
    /\ progress' = update_progress(index, strokes)
    /\ emitted' = <<FALSE>>
    /\ raised' = NoRaise
    /\ run' = NotClean
    /\ UNCHANGED <<index, stroke_index, active_colour, crashed>>

\* draw ended by an exception: IndexError raised by select_colour (line 185)
\* or by strokes[self._stroke_index] (line 148). The slot stops there; PyQt
\* either logs the exception and carries on or aborts the process.
draw_raise(colour, sel) ==
    /\ is_drawing' = TRUE
    /\ ops' = sel.ops
    /\ active_colour' = sel.active
    /\ progress' = update_progress(index, strokes)
    /\ emitted' = << >>
    /\ raised' = IF sel.raised THEN [kind |-> "colour", colour |-> colour]
                 ELSE [kind |-> "point", colour |-> None]
    /\ crashed' \in BOOLEAN
    /\ run' = NotClean
    /\ UNCHANGED <<index, stroke_index, mouse_press>>

\* draw, lines 147-174: one segment of the current polygon.
draw_segment(poly, sel, v) ==
    LET final   == IsFinalStroke(poly, stroke_index)
        start   == SegStart(poly, stroke_index)
        end     == SegEnd(poly, stroke_index)
        seg_ops == SegmentOps(start, end, v)
        fin_ops == IF final THEN <<ReleaseOp>> ELSE << >>
        cont    == Continuation(TRUE)
    IN  /\ is_drawing' = TRUE
        /\ active_colour' = sel.active
        /\ progress' = SegmentProgress
        /\ IF final
           THEN /\ stroke_index' = 0
                /\ index' = index + 1
                /\ mouse_press' = FALSE
           ELSE /\ stroke_index' = stroke_index + 1
                /\ index' = index
                /\ mouse_press' = TRUE
        /\ ops' = sel.ops \o seg_ops \o fin_ops \o cont.ops
        /\ emitted' = cont.emitted
        /\ raised' = NoRaise
        /\ run' = RunAfter(ops', seg_ops[1], seg_ops[Len(seg_ops)])
        /\ UNCHANGED crashed

\* draw(velocity), lines 130-174.
draw(v) ==
    /\ ~crashed
    /\ velocity' = v
    /\ last' = Snapshot("draw")
    /\ IF Exhausted
       THEN draw_exhausted
       ELSE LET colour == strokes[index + 1][1]
                poly   == strokes[index + 1][2]
                sel    == IF NeedsSelect(colour) THEN select_colour(colour)
                          ELSE [raised |-> FALSE, ops |-> << >>,
                                active |-> active_colour]
            IN  IF sel.raised \/ stroke_index >= Len(poly)
                THEN draw_raise(colour, sel)
                ELSE draw_segment(poly, sel, v)
    /\ button' = ButtonAfter(button, ops')
    /\ UNCHANGED <<canvas, colours, strokes, reset_flag>>

-----------------------------------------------------------------------------
(* The engine on its own: slots invoked in any order *)

Constructed ==
    /\ canvas = <<0, 0, 0, 0>>
    /\ colours = EmptyDict
    /\ strokes = << >>
    /\ index = 0
    /\ stroke_index = 0
    /\ active_colour = None
    /\ is_drawing = FALSE
    /\ reset_flag = FALSE
    /\ mouse_press = FALSE
    /\ velocity = 100
    /\ ops = << >>
    /\ button = "up"
    /\ progress = update_progress(0, << >>)
    /\ emitted = << >>
    /\ raised = NoRaise
    /\ crashed = FALSE
    /\ last = [slot |-> "init", prev_slot |-> "init", prev_index |-> 0,
               prev_stroke_index |-> 0, index |-> 0, stroke_index |-> 0,
               active_colour |-> None, is_drawing |-> FALSE,
               mouse_press |-> FALSE, reset_flag |-> FALSE]
    /\ run = NotClean
    /\ started = FALSE
    /\ app_data = << >>
    /\ app_image = << >>
    /\ key_down = FALSE
    /\ lpc = "idle"
    /\ workerQ = << >>
    /\ guiQ = << >>
    /\ thread = "running"
    /\ access = ByWorker
    /\ clicked = << >>

Init ==
    /\ Constructed
    /\ shot = NoShot
    /\ located = << >>
    /\ swatches = NoSwatches

Next ==
    \/ \E v \in Velocities : draw(v) /\ UNCHANGED appVars
    \/ stop /\ UNCHANGED appVars
    \/ reset /\ UNCHANGED appVars
    \/ \E input \in StrokeInputs : set_strokes(input) /\ UNCHANGED appVars
    \/ \E c \in CanvasInputs : set_canvas(c) /\ UNCHANGED appVars
    \/ \E list \in PaletteInputs : set_colours(list) /\ UNCHANGED appVars

Spec == Init /\ [][Next]_vars

-----------------------------------------------------------------------------
(* The application: SimpleApp on the interface thread, the pynput listener
   thread, and the engine on the worker thread behind queued connections.
   Every signal connected in SimpleApp.__init__ (app.py:161-169) crosses
   threads, so an emit appends to the receiving thread's event queue. *)

\* Results of find_canvas for the selected region: (canvas, colours).
AppData ==
    { << <<10, 20, 110, 120>>,
         << <<"red", <<54, 500, 78, 524>> >>, <<"green", <<78, 500, 102, 524>> >> >> >> }

\* Pasted images, each given by the polygons image_to_polygons finds in it for
\* a palette colour.
AppImages ==
    { [c \in {"red", "green"} |-> IF c = "red" THEN <<Poly(1)>> ELSE << >>],
      [c \in {"red", "green"} |-> IF c = "red" THEN <<Poly(3)>> ELSE <<Poly(2)>>] }

\* image[:n]
Take(list, n) == SubSeq(list, 1, IF Len(list) < n THEN Len(list) ELSE n)

\* create_brush_strokes -> image_to_polygons, lines 263-275 of skribbl_helper.py:
\* one (colour, polygons) entry per palette colour found in the image, in
\* palette order.
RECURSIVE create_brush_strokes(_, _)
create_brush_strokes(image, palette) ==
    IF palette = << >> THEN << >>
    ELSE LET colour == Head(palette)
             found  == IF colour \in DOMAIN image THEN image[colour] ELSE << >>
         IN  (IF found = << >> THEN << >> ELSE << <<colour, found>> >>)
             \o create_brush_strokes(image, Tail(palette))

\* The slice of _set_content, app.py:244.
StrokeCap == 40

\* _set_content, app.py:236-244: the argument of the set_drawing_strokes signal.
ContentStrokes(data, image) ==
    Take(create_brush_strokes(image, [i \in 1..Len(data[2]) |-> data[2][i][1]]),
         StrokeCap)

Call(slot, arg) == [slot |-> slot, arg |-> arg]

\* The user acts only while fewer than MaxQueue calls and signals are pending.
Room == Len(workerQ) + Len(guiQ) < MaxQueue

\* Mutation of request_draw: no draw is ever emitted (line 183 lost).
request_draw_silent(drawing, v) ==
    IF ~drawing
    THEN [calls |-> << >>, started |-> FALSE]
    ELSE [calls |-> << >>, started |-> started]

\* request_draw(drawing), app.py:181-185: the calls it emits and _started after.
request_draw(drawing, v) ==
    IF started /\ drawing
    THEN [calls |-> <<Call("draw", v)>>, started |-> started]
    ELSE IF ~drawing
    THEN [calls |-> << >>, started |-> FALSE]
    ELSE [calls |-> << >>, started |-> started]

\* on_key_press('-'), app.py:187-191, on the listener thread: the test and the
\* assignment of _started.
on_key_press ==
    /\ ~crashed
    /\ thread # "finished"
    /\ lpc = "idle"
    /\ key_down' = TRUE
    /\ IF ~started
       THEN started' = TRUE /\ lpc' = "press"
       ELSE UNCHANGED <<started, lpc>>
    /\ UNCHANGED <<app_data, app_image, workerQ, guiQ>>
    /\ UNCHANGED <<engineVars, outVars, histVars, closeVars, locVars, clicked>>

\* on_key_press, app.py:192: its direct call of request_draw(True).
on_key_press_request ==
    /\ ~crashed
    /\ thread # "finished"
    /\ lpc = "press"
    /\ Room
    /\ \E v \in Velocities :
          LET r == request_draw(TRUE, v)
          IN  /\ workerQ' = workerQ \o r.calls
              /\ started' = r.started
    /\ lpc' = "idle"
    /\ UNCHANGED <<app_data, app_image, key_down, guiQ>>
    /\ UNCHANGED <<engineVars, outVars, histVars, closeVars, locVars, clicked>>

\* on_key_release('-'), app.py:196-200: stop_drawing.emit().
on_key_release ==
    /\ ~crashed
    /\ thread # "finished"
    /\ lpc = "idle"
    /\ key_down
    /\ Room
    /\ key_down' = FALSE
    /\ workerQ' = Append(workerQ, Call("stop", 0))
    /\ lpc' = "release"
    /\ UNCHANGED <<started, app_data, app_image, guiQ>>
    /\ UNCHANGED <<engineVars, outVars, histVars, closeVars, locVars, clicked>>

\* on_key_release, app.py:201: _started = False.
on_key_release_clear ==
    /\ ~crashed
    /\ thread # "finished"
    /\ lpc = "release"
    /\ started' = FALSE
    /\ lpc' = "idle"
    /\ UNCHANGED <<app_data, app_image, key_down, workerQ, guiQ>>
    /\ UNCHANGED <<engineVars, outVars, histVars, closeVars, locVars, clicked>>

\* The interface thread delivers a request_next_stroke signal to request_draw.
deliver_request_draw ==
    /\ ~crashed
    /\ thread = "running"
    /\ guiQ # << >>
    /\ \E v \in Velocities :
          LET r == request_draw(Head(guiQ), v)
          IN  /\ workerQ' = workerQ \o r.calls
              /\ started' = r.started
    /\ guiQ' = Tail(guiQ)
    /\ UNCHANGED <<app_data, app_image, key_down, lpc>>
    /\ UNCHANGED <<engineVars, outVars, histVars, closeVars, locVars, clicked>>

\* SimpleApp.reset, app.py:208-209: the Reset button.
app_reset ==
    /\ ~crashed
    /\ thread = "running"
    /\ Room
    /\ workerQ' = Append(workerQ, Call("reset", 0))
    /\ UNCHANGED <<started, app_data, app_image, key_down, lpc, guiQ>>
    /\ UNCHANGED <<engineVars, outVars, histVars, closeVars, locVars, clicked>>

\* _set_content, app.py:229-244, as called by on_canvas_found(data) and by
\* paste_image with an image.
on_canvas_found(data) ==
    /\ ~crashed
    /\ thread = "running"
    /\ Room
    /\ app_data' = <<data>>
    /\ workerQ' = workerQ
                  \o << Call("set_canvas", data[1]), Call("set_colours", data[2]) >>
                  \o (IF Len(app_image) > 0
                      THEN << Call("set_strokes", ContentStrokes(data, app_image[1])) >>
                      ELSE << >>)
    /\ UNCHANGED <<started, app_image, key_down, lpc, guiQ>>
    /\ UNCHANGED <<engineVars, outVars, histVars, closeVars, locVars, clicked>>

paste_image(image) ==
    /\ ~crashed
    /\ thread = "running"
    /\ Room
    /\ app_image' = <<image>>
    /\ workerQ' = workerQ
                  \o (IF Len(app_data) > 0
                      THEN << Call("set_strokes", ContentStrokes(app_data[1], image)) >>
                      ELSE << >>)
    /\ UNCHANGED <<started, app_data, key_down, lpc, guiQ>>
    /\ UNCHANGED <<engineVars, outVars, histVars, closeVars, locVars, clicked>>

\* The worker thread runs the slot of the first queued call; the
\* request_next_stroke signals it emits are queued for the interface thread.
worker ==
    /\ thread # "finished"
    /\ workerQ # << >>
    /\ LET call == Head(workerQ)
       IN  \/ call.slot = "draw" /\ draw(call.arg)
           \/ call.slot = "stop" /\ stop
           \/ call.slot = "reset" /\ reset
           \/ call.slot = "set_strokes" /\ set_strokes(call.arg)
           \/ call.slot = "set_canvas" /\ set_canvas(call.arg)
           \/ call.slot = "set_colours" /\ set_colours(call.arg)
    /\ workerQ' = Tail(workerQ)
    /\ guiQ' = guiQ \o emitted'
    /\ access' = ByWorker
    /\ UNCHANGED <<started, app_data, app_image, key_down, lpc, thread, locVars, clicked>>

\* closeEvent, app.py:246-254: the interface thread calls the engine's stop()
\* itself, asks the worker's event loop to quit and waits for it. The call is
\* taken here between two slots of the worker; the worker may still run
\* queued slots until its event loop returns.
closeEvent ==
    /\ thread = "running"
    /\ stop
    /\ thread' = "quitting"
    /\ access' = ByGui(FALSE)
    /\ UNCHANGED <<started, app_data, app_image, key_down, lpc, workerQ, guiQ,
                   locVars, clicked>>

\* What a segment-drawing step and a stop() running at the same time can leave
\* behind. stop() makes three writes in order (mouse.release(), _mouse_press =
\* False, _is_drawing = False); the step reads _mouse_press at line 153 and
\* _is_drawing at line 170. With all three before line 170 the step itself
\* releases and emits False; otherwise it emits True, and the press of line
\* 154 may fall after stop's release, and after stop's flag write as well.
RaceOutcomes(final, pressed) ==
    { [press |-> FALSE, button |-> "up", emitted |-> <<FALSE>>],
      [press |-> FALSE, button |-> "up", emitted |-> <<TRUE>>] }
    \cup (IF final THEN {}
          ELSE { [press |-> TRUE, button |-> "down", emitted |-> <<TRUE>>] })
    \cup (IF final \/ pressed THEN {}
          ELSE { [press |-> FALSE, button |-> "down", emitted |-> <<TRUE>>] })

\* closeEvent while the worker is inside a draw that draws a segment: stop()
\* on the interface thread and draw() on the worker thread run unsynchronised
\* on the same engine and the same mouse.
closeEvent_during_draw ==
    /\ ~crashed
    /\ thread = "running"
    /\ workerQ # << >>
    /\ Head(workerQ).slot = "draw"
    /\ ~Exhausted
    /\ LET colour == strokes[index + 1][1]
           poly   == strokes[index + 1][2]
           sel    == IF NeedsSelect(colour) THEN select_colour(colour)
                     ELSE [raised |-> FALSE, ops |-> << >>,
                           active |-> active_colour]
           final  == IsFinalStroke(poly, stroke_index)
       IN  /\ ~sel.raised
           /\ stroke_index < Len(poly)
           /\ \E out \in RaceOutcomes(final, mouse_press) :
                 /\ mouse_press' = out.press
                 /\ button' = out.button
                 /\ emitted' = out.emitted
           /\ is_drawing' = FALSE
           /\ active_colour' = sel.active
           /\ progress' = SegmentProgress
           /\ IF final
              THEN stroke_index' = 0 /\ index' = index + 1
              ELSE stroke_index' = stroke_index + 1 /\ index' = index
           /\ ops' = sel.ops
                      \o SegmentOps(SegStart(poly, stroke_index),
                                    SegEnd(poly, stroke_index),
                                    Head(workerQ).arg)
                      \o StopOps
    /\ velocity' = Head(workerQ).arg
    /\ raised' = NoRaise
    /\ last' = Snapshot("closeEvent")
    /\ run' = NotClean
    /\ workerQ' = Tail(workerQ)
    /\ guiQ' = guiQ \o emitted'
    /\ thread' = "quitting"
    /\ access' = ByGui(TRUE)
    /\ UNCHANGED <<canvas, colours, strokes, reset_flag, crashed>>
    /\ UNCHANGED <<started, app_data, app_image, key_down, lpc, locVars, clicked>>

\* QThread.quit() / wait(), app.py:251-252: the worker's event loop returns.
thread_finished ==
    /\ thread = "quitting"
    /\ thread' = "finished"
    /\ UNCHANGED <<engineVars, outVars, histVars>>
    /\ UNCHANGED <<started, app_data, app_image, key_down, lpc, workerQ, guiQ,
                   access, locVars, clicked>>

AppNext ==
    \/ on_key_press
    \/ on_key_press_request
    \/ on_key_release
    \/ on_key_release_clear
    \/ deliver_request_draw
    \/ app_reset
    \/ \E data \in AppData : on_canvas_found(data)
    \/ \E image \in AppImages : paste_image(image)
    \/ worker
    \/ closeEvent
    \/ closeEvent_during_draw
    \/ thread_finished

AppSpec == Init /\ [][AppNext]_vars

-----------------------------------------------------------------------------
(* One run with the key held: the canvas is selected and the image pasted
   before the key goes down, and the key is not released, the Reset button not
   clicked and the window not closed afterwards. The worker's and the
   interface thread's event loops deliver what is queued for them, and the
   listener thread finishes the handler it is in. *)

BeforeStart == ~key_down /\ lpc = "idle"

\* Pasted images of a run: those of AppImages, one with two polygons in each
\* colour, and one with more polygons in a single colour than the slice of
\* _set_content keeps.
RunImages ==
    AppImages \cup
    { [c \in {"red", "green"} |-> IF c = "red" THEN <<Poly(1), Poly(3)>>
                                  ELSE <<Poly(2), Poly(1)>>],
      [c \in {"red", "green"} |->
          IF c = "red" THEN [i \in 1..(StrokeCap + 1) |-> Poly(1 + (i % 2))]
          ELSE << >>] }

RunNext ==
    \/ BeforeStart /\ \E data \in AppData : on_canvas_found(data)
    \/ BeforeStart /\ \E image \in RunImages : paste_image(image)
    \/ on_key_press
    \/ on_key_press_request
    \/ deliver_request_draw
    \/ worker

RunSpec ==
    /\ Init
    /\ [][RunNext]_vars
    /\ WF_vars(worker)
    /\ WF_vars(deliver_request_draw)
    /\ WF_vars(on_key_press_request)

-----------------------------------------------------------------------------
(* The canvas locator on its own: find_canvas applied to screenshot crops *)

\* The application as constructed, a region of the screen selected.
LocInit ==
    /\ Constructed
    /\ shot \in [img : Screens, x_offset : {o[1] : o \in Offsets},
                  y_offset : {o[2] : o \in Offsets}]
    /\ located = << >>
    /\ swatches = NoSwatches

\* The call of find_canvas in SnipOverlay.mouseReleaseEvent, app.py:58.
locate ==
    /\ located = << >>
    /\ located' = <<find_canvas(shot.img, shot.x_offset, shot.y_offset)>>
    /\ swatches' = Sampling(located'[1], shot.x_offset, shot.y_offset)
    /\ UNCHANGED shot
    /\ UNCHANGED <<engineVars, outVars, histVars>>
    /\ UNCHANGED <<started, app_data, app_image, key_down, lpc, workerQ, guiQ,
                   closeVars, clicked>>

LocNext == locate

LocSpec == LocInit /\ [][LocNext]_vars

-----------------------------------------------------------------------------
(* Reading the actuator calls of the slot that ran last *)

\* A segment move carries a duration (move_mouse); the move of a colour
\* selection (mouse_click) carries none.
IsSegMove(o) == o.op = "move" /\ o.dur # NoDuration
SegMoves == SelectSeq(ops, IsSegMove)

IsSelectMove(o) == o.op = "move" /\ o.dur = NoDuration
SelectMoves == SelectSeq(ops, IsSelectMove)

At(o) == <<o.x, o.y>>

\* A polygon vertex in screen coordinates.
OnScreen(pt) == <<canvas[1] + pt[1], canvas[2] + pt[2]>>

\* Vertex k (0-based) of a polygon, and the one after it on the closed outline.
Vertex(poly, k) == poly[k + 1]
NextVertex(poly, k) == poly[((k + 1) % Len(poly)) + 1]

-----------------------------------------------------------------------------
(* C1: stop() leaves the stroke index, the point index and the active colour
   as they were, and the step that follows the stop draws the segment that
   begins at the point index and stroke the engine was stopped at (when that
   step finds a stroke to draw and raises nothing). *)
C1_StopResumesInPlace ==
    /\ last.slot = "stop" =>
          /\ index = last.index
          /\ stroke_index = last.stroke_index
          /\ active_colour = last.active_colour
    /\ (/\ last.slot = "draw"
        /\ last.prev_slot = "stop"
        /\ last.prev_index < Len(strokes)
        /\ raised.kind = "none") =>
          LET poly == strokes[last.prev_index + 1][2]
              k    == last.prev_stroke_index
          IN  /\ Len(SegMoves) = 2
              /\ At(SegMoves[1]) = OnScreen(Vertex(poly, k))
              /\ At(SegMoves[2]) = OnScreen(NextVertex(poly, k))

\* Stopped after 2 segments of a polygon of at least 4: the third is drawn next.
C1_Witness ==
    /\ last.slot = "draw"
    /\ last.prev_slot = "stop"
    /\ last.prev_index < Len(strokes)
    /\ Len(strokes[last.prev_index + 1][2]) >= 4
    /\ last.prev_stroke_index = 2
    /\ last.mouse_press = FALSE
    /\ Len(SegMoves) = 2
    /\ stroke_index = 3

-----------------------------------------------------------------------------
(* C2: whatever state stop() is invoked in, it issues a mouse release and ends
   with the press flag false, the running flag false and the button up. *)
C2_StopReleases ==
    last.slot = "stop" =>
        /\ Count(ops, "release") >= 1
        /\ mouse_press = FALSE
        /\ is_drawing = FALSE
        /\ button = "up"

\* stop() mid-polygon, mouse pressed, run in progress, a reset pending.
C2_Witness ==
    /\ last.slot = "stop"
    /\ last.is_drawing
    /\ last.mouse_press
    /\ last.stroke_index > 0
    /\ last.reset_flag

-----------------------------------------------------------------------------
(* C3 *)

\* The step that ran last was a draw that found a stroke whose colour was not the
\* active colour, and it raised nothing.
SelectingStep ==
    /\ last.slot = "draw"
    /\ last.index < Len(strokes)
    /\ strokes[last.index + 1][1] # last.active_colour
    /\ raised.kind = "none"

(* C3 as claimed: a step that finds the stroke's colour different from the
   active colour performs only the colour selection (move to the swatch and
   click, record the colour): no press, no segment move, indices unchanged. *)
C3_Original ==
    SelectingStep =>
        /\ Len(ops) = 2
        /\ ops[1].op = "move"
        /\ ops[2].op = "click"
        /\ active_colour = strokes[last.index + 1][1]
        /\ Count(ops, "press") = 0
        /\ SegMoves = << >>
        /\ index = last.index
        /\ stroke_index = last.stroke_index

(* C3 as amended: such a step first performs the colour selection (a move to
   the centre of the swatch, a click, the colour recorded as active) and then,
   in the same step, draws the current segment and advances the point or
   stroke index; and every step that raises nothing emits either the release
   alone (no stroke left) or exactly one segment, preceded by one colour
   selection exactly when the colour differed. *)
C3_SelectThenSegment ==
    /\ SelectingStep =>
          LET colour == strokes[last.index + 1][1]
              poly   == strokes[last.index + 1][2]
              k      == last.stroke_index
              at     == ClickPoint(colours[colour])
          IN  /\ Len(ops) >= 2
              /\ ops[1] = MoveOp(at[1], at[2], NoDuration)
              /\ ops[2] = ClickOp
              /\ active_colour = colour
              /\ Len(SegMoves) = 2
              /\ At(SegMoves[1]) = OnScreen(Vertex(poly, k))
              /\ At(SegMoves[2]) = OnScreen(NextVertex(poly, k))
              /\ Count(ops, "press") = (IF last.mouse_press THEN 0 ELSE 1)
              /\ IF k + 1 >= Len(poly)
                 THEN index = last.index + 1 /\ stroke_index = 0
                 ELSE index = last.index /\ stroke_index = k + 1
    /\ (last.slot = "draw" /\ raised.kind = "none") =>
          IF last.index >= Len(strokes)
          THEN ops = <<ReleaseOp>>
          ELSE /\ Len(SegMoves) = 2
               /\ Count(ops, "click") = (IF SelectingStep THEN 1 ELSE 0)
               /\ Len(SelectMoves) = Count(ops, "click")

\* A colour selection and the first segment of a polygon in one step.
C3_Witness ==
    /\ SelectingStep
    /\ Count(ops, "click") = 1
    /\ Count(ops, "press") = 1
    /\ Len(SegMoves) = 2
    /\ stroke_index = last.stroke_index + 1

-----------------------------------------------------------------------------
(* C4: a step taken with the stroke index at or past the end of the stroke
   list (the empty list included) leaves stroke index, point index and active
   colour unchanged, issues no press, move or click, ends with the press flag
   and the running flag false and signals "no more work"; a second such step
   starts from the state the first one left and ends in it again. *)
C4_ExhaustedStepIsNoOp ==
    /\ (last.slot = "draw" /\ last.index >= Len(strokes)) =>
          /\ index = last.index
          /\ stroke_index = last.stroke_index
          /\ active_colour = last.active_colour
          /\ Count(ops, "press") = 0
          /\ Count(ops, "move") = 0
          /\ Count(ops, "click") = 0
          /\ mouse_press = FALSE
          /\ is_drawing = FALSE
          /\ emitted = <<FALSE>>
    /\ (/\ last.slot = "draw"
        /\ last.prev_slot = "draw"
        /\ last.index >= Len(strokes)
        /\ last.prev_index >= Len(strokes)) =>
          /\ last.is_drawing = is_drawing
          /\ last.mouse_press = mouse_press
          /\ last.reset_flag = reset_flag

\* Two steps in a row on the empty stroke list.
C4_Witness ==
    /\ strokes = << >>
    /\ last.slot = "draw"
    /\ last.prev_slot = "draw"
    /\ emitted = <<FALSE>>

-----------------------------------------------------------------------------
(* C5 *)

\* The first m segments of a polygon, in screen coordinates: the i-th from
\* vertex i to vertex (i + 1) mod n.
Outline(poly, m) ==
    [i \in 1..m |-> << OnScreen(Vertex(poly, i - 1)),
                       OnScreen(NextVertex(poly, i - 1)) >>]

\* Every press of the step comes before the step's move to the end vertex.
PressBeforeEndMove ==
    \A i \in 1..Len(ops) :
        ops[i].op = "press" =>
            \E j \in (i + 1)..Len(ops) : IsSegMove(ops[j])

(* C5: a polygon of n >= 1 vertices drawn by consecutive steps from its first
   vertex gets exactly n segment moves, the i-th from vertex i to vertex
   (i + 1) mod n, with one press, issued before the first segment's end move,
   and one release, issued after the n-th; the n-th segment leaves the point
   index 0 and the stroke index one higher, every earlier one leaves the point
   index one higher. *)
C5_Claim ==
    (last.slot = "draw" /\ run.clean /\ raised.kind = "none") =>
        LET poly == strokes[last.index + 1][2]
            n    == Len(poly)
            k    == last.stroke_index
        IN  /\ run.segs = Outline(poly, k + 1)
            /\ run.presses = 1
            /\ PressBeforeEndMove
            /\ IF k + 1 >= n
               THEN /\ Len(run.segs) = n
                    /\ run.releases = 1
                    /\ ops[Len(ops)] = ReleaseOp
                    /\ stroke_index = 0
                    /\ index = last.index + 1
               ELSE /\ run.releases = 0
                    /\ stroke_index = k + 1
                    /\ index = last.index

-----------------------------------------------------------------------------
\* The step that ran last drew the final segment of a polygon.
DrewFinalSegment ==
    /\ last.slot = "draw"
    /\ raised.kind = "none"
    /\ last.index < Len(strokes)
    /\ last.stroke_index + 1 >= Len(strokes[last.index + 1][2])

(* C6: a step changes the stroke index only by +1, and exactly when it draws a
   polygon's final segment; and in every state reachable by draw, stop, reset,
   set_strokes, set_canvas and set_colours, 0 <= stroke index <= length of the
   current stroke list. *)
C6_Claim ==
    /\ last.slot = "draw" =>
          /\ index \in {last.index, last.index + 1}
          /\ (index = last.index + 1) <=> DrewFinalSegment
    /\ 0 <= index
    /\ index <= Len(strokes)

(* C7: after each step that returns, the progress emitted last is the
   engine's (stroke index, length of the stroke list) as the step leaves
   them. *)
C7_Claim ==
    (last.slot = "draw" /\ raised.kind = "none") =>
        progress = <<index, Len(strokes)>>

-----------------------------------------------------------------------------
(* C9: while a run is in progress (running flag true), set_strokes, set_canvas
   and set_colours leave the stroke list, the canvas box, the palette mapping,
   both indices, the active colour and the press flag unchanged. *)
C9_MutatorsRejectedWhileRunning ==
    [][ (is_drawing /\ last'.slot \in {"set_strokes", "set_canvas", "set_colours"})
          => UNCHANGED <<strokes, canvas, colours, index, stroke_index,
                         active_colour, mouse_press>> ]_vars

\* A mutator invoked mid-polygon during a run.
C9_Witness ==
    /\ last.slot \in {"set_strokes", "set_canvas", "set_colours"}
    /\ last.is_drawing
    /\ last.mouse_press
    /\ is_drawing
    /\ stroke_index > 0

-----------------------------------------------------------------------------
(* C10: when a reset was requested during a run, then once the engine has
   stopped (by stop, by running out of strokes, or at the end of a step) the
   stroke index and the point index are 0, the active colour is cleared and
   the pending-reset flag is cleared. Stated for a replay that had advanced
   when it stopped, so that there is a position to zero. *)
C10_Claim ==
    (/\ last.slot \in {"stop", "draw"}
     /\ last.reset_flag
     /\ ~is_drawing
     /\ (last.index > 0 \/ last.stroke_index > 0)) =>
        /\ index = 0
        /\ stroke_index = 0
        /\ active_colour = None
        /\ reset_flag = FALSE

-----------------------------------------------------------------------------
(* C8 *)

\* The step that ran last drew the final segment of the last polygon of the list.
DrewLastSegmentOfList == DrewFinalSegment /\ index = Len(strokes)

(* C8 as claimed: the step that draws the final segment of the last polygon is
   the final step of the run: it releases the mouse and emits "no more work"
   with progress completed = total. *)
C8_Original ==
    DrewLastSegmentOfList =>
        /\ ops[Len(ops)] = ReleaseOp
        /\ emitted = <<FALSE>>
        /\ progress = <<Len(strokes), Len(strokes)>>

\* What the steps at the end of a run emit.
C8_Steps ==
    /\ DrewLastSegmentOfList =>
          /\ ops[Len(ops)] = ReleaseOp
          /\ mouse_press = FALSE
          /\ emitted = <<TRUE>>
          /\ progress = <<Len(strokes) - 1, Len(strokes)>>
    /\ (last.slot = "draw" /\ last.index = Len(strokes)) =>
          /\ ops = <<ReleaseOp>>
          /\ mouse_press = FALSE
          /\ is_drawing = FALSE
          /\ emitted = <<FALSE>>
          /\ progress = <<Len(strokes), Len(strokes)>>

\* What the controller does with a continuation signal: on "no more work" it
\* clears _started and requests nothing; on "more work" it requests one step
\* if _started is set and nothing otherwise.
C8_Handshake ==
    (guiQ # << >> /\ guiQ' = Tail(guiQ)) =>
        IF Head(guiQ) = FALSE
        THEN started' = FALSE /\ Len(workerQ') = Len(workerQ)
        ELSE /\ started' = started
             /\ IF started
                THEN /\ Len(workerQ') = Len(workerQ) + 1
                     /\ workerQ'[Len(workerQ')].slot = "draw"
                ELSE Len(workerQ') = Len(workerQ)

(* C8 as amended: the step that draws the final segment of the last polygon
   releases the mouse but emits the "more work" signal, its emitted progress
   still one short of the total; the run ends with the step after it, which
   the controller requests if it is still started: that step draws nothing,
   releases the mouse and emits "no more work" with progress completed = total
   (1/1 for a single-polygon list), and on that signal the controller clears
   its started flag and requests no further step. *)
C8_RunEndsOneStepLater == []C8_Steps /\ [][C8_Handshake]_vars

\* A single-polygon list drawn to its end with the key held: the step after
\* the final segment has reported 1/1 and "no more work", and the controller
\* has taken the signal.
C8_Witness ==
    /\ Len(strokes) = 1
    /\ last.slot = "draw"
    /\ last.prev_slot = "draw"
    /\ last.index = 1
    /\ last.prev_index = 0
    /\ progress = <<1, 1>>
    /\ emitted = <<FALSE>>
    /\ guiQ = << >>
    /\ workerQ = << >>
    /\ key_down
    /\ lpc = "idle"
    /\ started = FALSE

-----------------------------------------------------------------------------
(* C11: reset() invoked when no run is in progress sets the stroke index to 0,
   the point index to 0 and the active colour to none at once, and leaves the
   stroke list, the canvas box and the palette mapping unchanged. *)
C11_ResetWhenIdle ==
    [][ (~is_drawing /\ last'.slot = "reset")
          => /\ index' = 0
             /\ stroke_index' = 0
             /\ active_colour' = None
             /\ UNCHANGED <<strokes, canvas, colours>> ]_vars

\* reset() on a replay stopped mid-polygon in its second stroke, a colour active.
C11_Witness ==
    /\ last.slot = "reset"
    /\ ~last.is_drawing
    /\ last.index > 0
    /\ last.stroke_index > 0
    /\ last.active_colour # None
    /\ index = 0
    /\ stroke_index = 0
    /\ active_colour = None
    /\ strokes # << >>

-----------------------------------------------------------------------------
(* C12: a step that finds the current stroke's colour without a swatch in the
   palette mapping aborts the run: it draws no segment of that stroke,
   releases the mouse, ends with the engine not running and the button up,
   emits the "no more work" signal (on which the controller clears its
   started flag), and names the offending colour. *)
C12_Claim ==
    (/\ last.slot = "draw"
     /\ last.index < Len(strokes)
     /\ strokes[last.index + 1][1] \notin DOMAIN colours) =>
        /\ SegMoves = << >>
        /\ Count(ops, "press") = 0
        /\ index = last.index
        /\ stroke_index = last.stroke_index
        /\ raised.colour = strokes[last.index + 1][1]
        /\ Count(ops, "release") >= 1
        /\ mouse_press = FALSE
        /\ button = "up"
        /\ is_drawing = FALSE
        /\ emitted = <<FALSE>>

-----------------------------------------------------------------------------
(* C13 *)

\* Calls of a slot waiting in the worker's queue.
Queued(slot) == Cardinality({i \in 1..Len(workerQ) : workerQ[i].slot = slot})

\* The key is up, its release handler has returned and the engine has processed
\* every stop emitted so far: no start key-press has happened since.
StopProcessed == ~key_down /\ lpc = "idle" /\ Queued("stop") = 0

(* C13: once the key-release handler has run and the engine has processed its
   stop, then until the next start key-press no further segment is drawn: the
   engine stays not running, the press flag stays false and the mouse button
   stays up, under every interleaving of the listener thread, the interface
   thread and the worker. *)
C13_Claim ==
    StopProcessed =>
        /\ is_drawing = FALSE
        /\ mouse_press = FALSE
        /\ button = "up"

-----------------------------------------------------------------------------
(* C14: the controller and the engine follow a request/acknowledge handshake:
   at every moment at most one step request (draw call) is queued for or
   executing in the engine, whatever the sequence of key presses and
   releases. *)
C14_Claim == Queued("draw") <= 1

-----------------------------------------------------------------------------
(* C15: engine state is read and written only from the worker context, and no
   engine slot (hence no mouse primitive) is run by another thread while the
   worker is inside a slot, for every controller operation including closing
   the window. *)
C15_Claim == access.thread = "worker" /\ ~access.concurrent

-----------------------------------------------------------------------------
(* C16 *)

\* The run has ended: the last step signalled "no more work" with the stroke
\* index at the length of the list, the mouse is released, the engine is not
\* running, the controller's started flag is cleared and no request or
\* continuation signal is outstanding.
Terminated ==
    /\ last.slot = "draw"
    /\ emitted = <<FALSE>>
    /\ index = Len(strokes)
    /\ mouse_press = FALSE
    /\ button = "up"
    /\ is_drawing = FALSE
    /\ started = FALSE
    /\ workerQ = << >>
    /\ guiQ = << >>

(* C16: started with the key held on a finite stroke list whose colours are
   all in the palette, and with no stop or reset, the self-chained run
   eventually terminates. *)
C16_RunTerminates == (key_down /\ started) ~> Terminated

\* A list of two polygons in two colours drawn to its end.
C16_Witness ==
    /\ Terminated
    /\ key_down
    /\ Len(strokes) = 2
    /\ active_colour = strokes[2][1]
    /\ last.prev_slot = "draw"
    /\ progress = <<2, 2>>

-----------------------------------------------------------------------------
(* C17: replacing the stroke list at any moment set_strokes is accepted does
   not corrupt the replay: in every reachable state where the stroke index is
   within the list, the point index is a valid vertex index of the current
   polygon, so the next step indexes neither past the polygon nor past the
   list. *)
C17_Claim ==
    index < Len(strokes) =>
        /\ 0 <= stroke_index
        /\ stroke_index < Len(strokes[index + 1][2])

-----------------------------------------------------------------------------
(* C18 *)

\* The canvas and an image are set and the engine has taken the stroke list
\* made from them.
Loaded ==
    /\ Len(app_data) > 0
    /\ Len(app_image) > 0
    /\ Queued("set_strokes") = 0

\* The per-colour polygon lists of the loaded image, before the slice.
Planned ==
    create_brush_strokes(app_image[1],
                         [i \in 1..Len(app_data[1][2]) |-> app_data[1][2][i][1]])

\* The number of polygons in a per-colour list.
RECURSIVE PolygonCount(_)
PolygonCount(list) ==
    IF list = << >> THEN 0
    ELSE Len(Head(list)[2]) + PolygonCount(Tail(list))

Min(a, b) == IF a < b THEN a ELSE b

(* C18: the flattened stroke list held by the replay engine has length
   min(P, 40), P being the number of polygons summed over all colours: one
   stroke per polygon, strokes beyond the 40th dropped. *)
C18_Claim ==
    Loaded => Len(strokes) = Min(PolygonCount(Planned), StrokeCap)

-----------------------------------------------------------------------------
(* C19 *)

\* The per-colour list handed to set_strokes for the loaded image.
Handed == ContentStrokes(app_data[1], app_image[1])

\* The number of polygons in the entries before entry i.
RECURSIVE Before(_, _)
Before(list, i) ==
    IF i <= 1 THEN 0 ELSE Before(list, i - 1) + Len(list[i - 1][2])

(* C19: with randomize not set, flattening preserves iteration order: the
   strokes appear colour by colour in the order of the per-colour input list,
   within one colour in the order of that colour's polygon list, and every
   stroke carries the colour of the entry its polygon came from. *)
C19_FlattenKeepsOrder ==
    Loaded =>
        /\ Len(strokes) = PolygonCount(Handed)
        /\ \A i \in 1..Len(Handed) :
              \A j \in 1..Len(Handed[i][2]) :
                 strokes[Before(Handed, i) + j] = <<Handed[i][1], Handed[i][2][j]>>

\* Two colours with two different polygons each.
C19_Witness ==
    /\ Loaded
    /\ Len(Handed) = 2
    /\ Len(Handed[1][2]) = 2
    /\ Len(Handed[2][2]) = 2
    /\ Handed[1][2][1] # Handed[1][2][2]
    /\ Handed[2][2][1] # Handed[2][2][2]
    /\ Len(strokes) = 4

-----------------------------------------------------------------------------
(* C20 *)

\* The rows and columns of the crop the scans passed over, from the box
\* returned, and the lines they stopped at.
Top    == located[1][2] - shot.y_offset
Bottom == located[1][4] - shot.y_offset
Left   == located[1][1] - shot.x_offset
Right  == located[1][3] - shot.x_offset

SkippedRows == (0..(Top - 1)) \cup (Bottom..(shot.img.h - 1))
SkippedCols == (0..(Left - 1)) \cup (Right..(shot.img.w - 1))

StopRows == (IF Top < shot.img.h THEN {Top} ELSE {})
            \cup (IF Bottom > Top THEN {Bottom - 1} ELSE {})
StopCols == (IF Left < shot.img.w THEN {Left} ELSE {})
            \cup (IF Right > Left THEN {Right - 1} ELSE {})

Ordered == located[1][1] <= located[1][3] /\ located[1][2] <= located[1][4]

\* At least 95% of the row or column is near-white.
BackgroundRow(r) == 20 * LightInRow(shot.img, r) >= 19 * shot.img.w
BackgroundCol(c) == 20 * LightInCol(shot.img, c) >= 19 * shot.img.h

(* C20 as claimed: every row and column the scans skip is background (at
   least 95% of its pixels near-white), the row or column a scan stops at is
   not background, and the box has x1 <= x2 and y1 <= y2. *)
C20_Original ==
    Len(located) > 0 =>
    /\ \A r \in SkippedRows : BackgroundRow(r)
    /\ \A c \in SkippedCols : BackgroundCol(c)
    /\ \A r \in StopRows : ~BackgroundRow(r)
    /\ \A c \in StopCols : ~BackgroundCol(c)
    /\ Ordered

(* C20 as amended: find_canvas scans inward from each of the four edges and
   skips a row or column iff fewer than 5% of its pixels are near-white (all
   channels > 220): every row and column skipped has under 5% near-white
   pixels, the row or column at which a scan stops (if any) has at least 5%,
   and the returned box always satisfies x1 <= x2 and y1 <= y2. *)
C20_SkipsUnlitLines ==
    Len(located) > 0 =>
    /\ \A r \in SkippedRows : 20 * LightInRow(shot.img, r) < shot.img.w
    /\ \A c \in SkippedCols : 20 * LightInCol(shot.img, c) < shot.img.h
    /\ \A r \in StopRows : 20 * LightInRow(shot.img, r) >= shot.img.w
    /\ \A c \in StopCols : 20 * LightInCol(shot.img, c) >= shot.img.h
    /\ Ordered

\* A crop whose first row holds a single near-white pixel and is skipped, the
\* scans stopping at rows that are partly near-white; that pixel's column is
\* not skipped, the two dark columns on the right are.
C20_Witness ==
    /\ Len(located) > 0
    /\ shot.img.h = MaxRows
    /\ shot.img.w = ScreenWidth
    /\ LightInRow(shot.img, 0) = 1
    /\ Top = 1
    /\ Bottom = shot.img.h - 1
    /\ LightInRow(shot.img, Top) < shot.img.w
    /\ Left = 0
    /\ Right = shot.img.w - 2
    /\ shot.x_offset > 0

-----------------------------------------------------------------------------
(* C21 *)

\* The scans left a box without area: no canvas in the crop.
Degenerate == Len(located) > 0 /\ (Top = Bottom \/ Left = Right)

(* C21: when the canvas is not found (the scans leave an empty box) find_canvas
   raises no error and returns the degenerate box: sampling the palette
   swatches indexes no pixel outside the cropped image. *)
C21_Claim == Degenerate => ~swatches.raised

-----------------------------------------------------------------------------
(* C22 *)

\* The screen position of the pixel of the cropped image at row and col.
ScreenOf(row, col) ==
    << shot.x_offset + Left + Indexed(Right - Left, col),
       shot.y_offset + Top + Indexed(Bottom - Top, row) >>

(* C22: for every swatch the locator returns, whatever the scans trimmed from
   the top and the left of the crop, the click region is an absolute screen
   box measured from the bottom of the discovered canvas box, and the screen
   position of the pixel whose colour was sampled is the centre of that click
   region. *)
C22_Claim ==
    (Len(located) > 0 /\ ~swatches.raised) =>
        \A i \in 1..Len(swatches.list) :
            LET s == swatches.list[i]
                y == (i - 1) \div NUM_COLOURS
            IN  /\ s.box[4] = located[1][4] - (y * COLOUR_HEIGHT)
                /\ s.box[2] = s.box[4] - COLOUR_HEIGHT
                /\ ClickPoint(s.box) = ScreenOf(s.row, s.col)

-----------------------------------------------------------------------------
(* C23 *)

\* Equality of two durations given as fractions.
SameDuration(a, b) == a[1] * b[2] = b[1] * a[2]

(* C23: for every segment, the duration in milliseconds that the engine passes
   to the actuator's move for the move to the next vertex is (Euclidean
   distance between the two vertices / reference distance 100) x velocity,
   and the move to the segment's start vertex has duration 0. *)
C23_Claim ==
    (/\ last.slot = "draw"
     /\ raised.kind = "none"
     /\ last.index < Len(strokes)) =>
        LET poly == strokes[last.index + 1][2]
            k    == last.stroke_index
            d    == SegDistance(Vertex(poly, k), NextVertex(poly, k))
        IN  /\ Len(SegMoves) = 2
            /\ SameDuration(SegMoves[1].dur, <<0, 1>>)
            /\ SameDuration(SegMoves[2].dur, <<d * velocity, self_distance>>)

-----------------------------------------------------------------------------
(* C24 *)

(* C24: at every step boundary (between slot invocations on the worker), an
   engine that is not running has a false press flag and the mouse button is
   up, after any sequence of draw, stop, reset and mutator calls, a reset
   requested in the middle of a polygon included. *)
C24_Claim == ~is_drawing => (~mouse_press /\ button = "up")

-----------------------------------------------------------------------------
(* C25 *)

\* While the press flag is set, the active colour is the current stroke's.
PressedInStrokeColour ==
    (mouse_press /\ index < Len(strokes)) =>
        active_colour = strokes[index + 1][1]

\* A draw step entered with the press flag set clicks no swatch.
NoSelectWhilePressed ==
    (last.slot = "draw" /\ last.mouse_press) => Count(ops, "click") = 0

(* C25: the colour-select move-and-click is never issued while the mouse is
   pressed: in every reachable state in which the press flag is true the
   active colour equals the colour of the current stroke, so no sequence of
   draw, stop, reset, set_strokes and set_colours makes the engine drag a
   pressed pen to the palette. *)
C25_Claim == PressedInStrokeColour /\ NoSelectWhilePressed

-----------------------------------------------------------------------------
(* The engine with the history of its clicks: the slots of Spec, each one
   recording where the last click of its actuator calls went. select_colour is
   the only caller of mouse_click (drawing.py:192), which moves and then
   clicks (drawing.py:199-204). *)

\* The point of the last click among the calls seq, or what it was before.
Clicked(seq, before) ==
    LET at == {i \in 2..Len(seq) : seq[i].op = "click"}
    IN  IF at = {} THEN before
        ELSE LET i == CHOOSE j \in at : \A k \in at : k <= j
             IN  <<At(seq[i - 1])>>

Track ==
    /\ clicked' = Clicked(ops', clicked)
    /\ UNCHANGED <<started, app_data, app_image, key_down, lpc, workerQ, guiQ,
                   closeVars, locVars>>

TrackNext ==
    \/ \E v \in Velocities : draw(v) /\ Track
    \/ stop /\ Track
    \/ reset /\ Track
    \/ \E input \in StrokeInputs : set_strokes(input) /\ Track
    \/ \E c \in CanvasInputs : set_canvas(c) /\ Track
    \/ \E list \in PaletteInputs : set_colours(list) /\ Track

TrackSpec == Init /\ [][TrackNext]_vars

-----------------------------------------------------------------------------
(* C26 *)

\* The step that ran last moved the pen to a segment's end vertex.
DrewSegment ==
    /\ last.slot = "draw"
    /\ raised.kind = "none"
    /\ last.index < Len(strokes)
    /\ Len(SegMoves) = 2

\* The active colour is the colour of the stroke the step drew.
InStrokeColour == DrewSegment => active_colour = strokes[last.index + 1][1]

\* The colour of the stroke the step drew is a key of the palette mapping.
InPalette == DrewSegment => strokes[last.index + 1][1] \in DOMAIN colours

\* The last click went to the swatch the palette mapping has for that colour.
SwatchClickedLast ==
    (DrewSegment /\ strokes[last.index + 1][1] \in DOMAIN colours) =>
        clicked = <<ClickPoint(colours[strokes[last.index + 1][1]])>>

(* C26: every pressed segment move is drawn in the stroke's own colour:
   whenever the engine issues the move to a segment's end vertex, the active
   colour equals the colour of the stroke being drawn and that colour is a key
   of the palette mapping whose swatch was the last one clicked. *)
C26_Claim == InStrokeColour /\ InPalette /\ SwatchClickedLast

=============================================================================
